---- MODULE Spec2Model ----
(***************************************************************************)
(* Model of package reqstrategy: validated calls (Do), the fan-out         *)
(* strategies Race, All and Some built on the call unit do(), the          *)
(* sequential Retry loop, and the attachment of validators to a request    *)
(* (WithValidator, WithStatusRequired) over Go's slices.                   *)
(*                                                                         *)
(* Go slices and request positions are 0-based; the model keeps the        *)
(* 0-based tags (functions over 0..N-1).  Channels are FIFO sequences.     *)
(***************************************************************************)
EXTENDS Integers, Sequences, FiniteSets, TLC

\* ------------------------------------------------------------------ bounds
\* Largest number of requests handed to Race / All / Some.
MaxRequests == 3
\* Largest number of intervals handed to Retry.
MaxIntervals == 3

\* Largest number of requests when behaviours are checked under fairness.
MaxFairRequests == 2
\* Largest number of validators on the request of a single Do.
MaxValidators == 3
\* Largest number of WithValidator / WithStatusRequired calls.
MaxAttach == 5

\* ------------------------------------------------------------ value domains
\* nil *http.Response and nil error.
NilResp == [nil |-> TRUE]
NoErr == [kind |-> "nil"]

\* Status codes the modelled servers answer with.
Statuses == {200, 500}
\* Durations a caller passes to Retry.
Durations == {1, 2}

\* A validator made by WithStatusRequired is decided by its list of codes.
\* The validator sequences a request of the model may carry.
ValidatorSeqs == {<< >>, << << 200 >> >>, << << 200, 500 >>, << 200 >> >>}

\* fmt.Errorf("all requests failed")
AllFailed == [kind |-> "all requests failed"]

\* ctx.Err() of a done context.
CtxErr(state) == [kind |-> state]

\* ------------------------------------------------------------------- state
VARIABLES
    strategy,    \* which of Race / All / Some runs ("none": Retry runs)
    requests,    \* the variadic requests: [0..N-1 -> request]
    pc,          \* the strategy's position: "spawn", "recv", "returned"
    spawned,     \* loop index of the `go do(...)` loop
    unit,        \* call unit k: "unspawned","spawned","calling","publishing","done"
    unitArgs,    \* the (r, order) arguments call unit k was started with
    watcher,     \* stop watcher of unit k: "none", "waiting", "done"
    cancelled,   \* whether unit k's derived context has been cancelled
    callResult,  \* the result unit k holds between Do's return and the send
    results,     \* the buffered channel `results`
    stop,        \* the channel `stop`: "open" or "closed"
    stopCloses,  \* how many times close(stop) ran
    received,    \* local `received`
    successful,  \* local `successful` (Some)
    responses,   \* local `responses` (All, Some)
    ret,         \* what the strategy returned
    delivered,   \* history: the results the strategy has read, in order
    request,     \* Retry: the request
    intervals,   \* Retry: the remaining intervals
    initIntervals, \* history: the intervals Retry was called with
    rpc,         \* Retry's position: "attempt", "select", "parked", "returned", "idle"
    ctxState,    \* the request's context: "active", "canceled", "deadline exceeded"
    timerFired,  \* whether the channel of time.After(intervals[0]) holds a value
    attempts,    \* history: the client's answer to each attempt, in order
    waited,      \* history: the intervals whose delay elapsed, in order
    rret,        \* what Retry returned
    dpc,         \* a single Do: "call", "returned", "idle"
    doRequest,   \* Do: the request
    doAnswer,    \* history: what client.Do answered
    doInvoked,   \* history: the positions of the validators Do invoked, in order
    doRet,       \* what Do returned
    heap,        \* the backing arrays of the validator slices
    areqs        \* the requests built with WithValidator / WithStatusRequired

fanVars == << strategy, requests, pc, spawned, unit, unitArgs, watcher, cancelled,
              callResult, results, stop, stopCloses, received, successful,
              responses, ret, delivered >>
retryVars == << request, intervals, initIntervals, rpc, ctxState, timerFired,
                attempts, waited, rret >>
doVars == << dpc, doRequest, doAnswer, doInvoked, doRet >>
attachVars == << heap, areqs >>
auxVars == << doVars, attachVars >>
vars == << fanVars, retryVars, auxVars >>

N == Cardinality(DOMAIN requests)
Idx == 0 .. (N - 1)

\* ------------------------------------------------------ the client and Do
\* A request is identified by its position (the tests use one path each).
Request(i, vs) == [id |-> i, validators |-> vs]

\* What client.Do(request) can answer: a response with some status, a
\* transport error, or the context's error once the context it was given is
\* done.  Cancellation is cooperative: a client may still answer normally.
ClientOutcomes(r, ctxErrs) ==
    { [resp |-> [req |-> r.id, status |-> s], err |-> NoErr] : s \in Statuses }
    \cup { [resp |-> NilResp, err |-> [kind |-> "transport", req |-> r.id]] }
    \cup { [resp |-> NilResp, err |-> [kind |-> k, req |-> r.id]] : k \in ctxErrs }

\* A validator that looks at the first code only (a variant the claims must
\* tell apart).
HasCodeFirst(codes, status) == codes # << >> /\ Head(codes) = status

\* The `for _, code := range codes` loop of the validator: whether some code
\* equals the status.
RECURSIVE HasCode(_, _)
HasCode(codes, status) ==
    IF codes = << >>
    THEN FALSE
    ELSE IF status = Head(codes) THEN TRUE ELSE HasCode(Tail(codes), status)

\* The validator of WithStatusRequired(r, codes...).
Validate(codes, resp) ==
    IF HasCode(codes, resp.status)
    THEN NoErr
    ELSE [kind |-> "validation", req |-> resp.req, codes |-> codes,
          status |-> resp.status]

\* The validators loop running to its end and keeping the last error (a
\* variant the claims must tell apart).
RECURSIVE RunValidatorsLast(_, _)
RunValidatorsLast(validators, resp) ==
    IF validators = << >>
    THEN NoErr
    ELSE LET e == Validate(Head(validators), resp)
             later == RunValidatorsLast(Tail(validators), resp)
         IN  IF later # NoErr THEN later ELSE e

\* The validators loop of Do: the error of the first validator that fails.
RECURSIVE RunValidators(_, _)
RunValidators(validators, resp) ==
    IF validators = << >>
    THEN NoErr
    ELSE LET e == Validate(Head(validators), resp)
         IN  IF e # NoErr THEN e ELSE RunValidators(Tail(validators), resp)

\* Do without its validators loop (a variant the claims must tell apart).
DoUnvalidated(r, outcome) == [resp |-> outcome.resp, err |-> outcome.err]

\* Do: the client's answer, then the request's validators.
Do(r, outcome) ==
    IF outcome.err # NoErr
    THEN [resp |-> outcome.resp, err |-> outcome.err]
    ELSE [resp |-> outcome.resp, err |-> RunValidators(r.validators, outcome.resp)]

\* ----------------------------------------------------- the call unit do()
NoArgs == [r |-> Request(-1, << >>), order |-> -1]
NoResult == [order |-> -1, response |-> NilResp, err |-> NoErr]

\* Every unit started with the loop's last index (a variant the claims must
\* tell apart: the goroutine reading the loop variable after the loop ran on).
SpawnArgsShared(i) == [r |-> requests[i], order |-> N - 1]

\* The arguments of `go do(client, r, i, stop, results)`.
SpawnArgs(i) == [r |-> requests[i], order |-> i]

\* The `go do(...)` loop of Race, All and Some: one iteration.
Spawn ==
    /\ pc = "spawn"
    /\ spawned < N
    /\ unit' = [unit EXCEPT ![spawned] = "spawned"]
    /\ unitArgs' = [unitArgs EXCEPT ![spawned] = SpawnArgs(spawned)]
    /\ spawned' = spawned + 1
    /\ pc' = IF spawned + 1 = N THEN "recv" ELSE "spawn"
    /\ UNCHANGED << strategy, requests, watcher, cancelled, callResult, results,
                    stop, stopCloses, received, successful, responses, ret,
                    delivered >>
    /\ UNCHANGED retryVars
    /\ UNCHANGED auxVars

\* do, up to the client call: derive the context, start the stop watcher.
Start(k) ==
    /\ unit[k] = "spawned"
    /\ unit' = [unit EXCEPT ![k] = "calling"]
    /\ watcher' = [watcher EXCEPT ![k] = "waiting"]
    /\ UNCHANGED << strategy, requests, pc, spawned, unitArgs, cancelled,
                    callResult, results, stop, stopCloses, received, successful,
                    responses, ret, delivered >>
    /\ UNCHANGED retryVars
    /\ UNCHANGED auxVars

\* A watcher that ends without cancelling (a variant the claims must tell
\* apart).
WatcherFireNoCancel(k) ==
    /\ watcher[k] = "waiting"
    /\ stop = "closed"
    /\ watcher' = [watcher EXCEPT ![k] = "done"]
    /\ UNCHANGED << strategy, requests, pc, spawned, unit, unitArgs, callResult,
                    results, stop, stopCloses, received, successful, responses,
                    ret, delivered, cancelled >>
    /\ UNCHANGED retryVars
    /\ UNCHANGED auxVars

\* The watcher goroutine: <-stop, then cancel().
WatcherFire(k) ==
    /\ watcher[k] = "waiting"
    /\ stop = "closed"
    /\ watcher' = [watcher EXCEPT ![k] = "done"]
    /\ cancelled' = [cancelled EXCEPT ![k] = TRUE]
    /\ UNCHANGED << strategy, requests, pc, spawned, unit, unitArgs, callResult,
                    results, stop, stopCloses, received, successful, responses,
                    ret, delivered >>
    /\ UNCHANGED retryVars
    /\ UNCHANGED auxVars

\* The result do builds from Do's answer.
MakeResult(args, d) == [order |-> args.order, response |-> d.resp, err |-> d.err]

\* Do(client, r.WithContext(ctx)) returns in unit k.
CallReturn(k) ==
    /\ unit[k] = "calling"
    /\ \E o \in ClientOutcomes(unitArgs[k].r,
                               IF cancelled[k] THEN {"canceled"} ELSE {}) :
          callResult' = [callResult EXCEPT
                           ![k] = MakeResult(unitArgs[k], Do(unitArgs[k].r, o))]
    /\ unit' = [unit EXCEPT ![k] = "publishing"]
    /\ UNCHANGED << strategy, requests, pc, spawned, unitArgs, watcher, cancelled,
                    results, stop, stopCloses, received, successful, responses,
                    ret, delivered >>
    /\ UNCHANGED retryVars
    /\ UNCHANGED auxVars

\* A result channel one slot short (a variant the claims must tell apart).
ResultsCapSmall == N - 1

\* Capacity of make(chan result, len(requests)).
ResultsCap == N

\* results <- result{order, response, err}, then the deferred cancel().
Publish(k) ==
    /\ unit[k] = "publishing"
    /\ Len(results) < ResultsCap
    /\ results' = Append(results, callResult[k])
    /\ callResult' = [callResult EXCEPT ![k] = NoResult]
    /\ cancelled' = [cancelled EXCEPT ![k] = TRUE]
    /\ unit' = [unit EXCEPT ![k] = "done"]
    /\ UNCHANGED << strategy, requests, pc, spawned, unitArgs, watcher, stop,
                    stopCloses, received, successful, responses, ret, delivered >>
    /\ UNCHANGED retryVars
    /\ UNCHANGED auxVars

\* ------------------------------------------------ Race, All, Some: the loops
\* A Go slice of responses: nil, or its elements at 0..len-1.
NilSlice == [isNil |-> TRUE, at |-> << >>]
Slice(f) == [isNil |-> FALSE, at |-> f]
\* make([]*http.Response, len(requests), len(requests))
MakeResponses == [i \in Idx |-> NilResp]

NoRet == [none |-> TRUE]

\* Race ending at the first result, whatever it carries (a variant the
\* claims must tell apart).
RaceStepFirstResult(res, rcv) ==
    IF res.err = NoErr
    THEN [returns |-> TRUE, ret |-> [response |-> res.response, err |-> NoErr],
          received |-> rcv]
    ELSE [returns |-> TRUE, ret |-> [response |-> NilResp, err |-> AllFailed],
          received |-> rcv + 1]

\* One iteration of Race's `for res := range results`, with what follows the
\* loop when it breaks: whether Race returns, what, and the new `received`.
RaceStep(res, rcv) ==
    IF res.err = NoErr
    THEN [returns |-> TRUE, ret |-> [response |-> res.response, err |-> NoErr],
          received |-> rcv]
    ELSE IF rcv + 1 = N
         THEN [returns |-> TRUE, ret |-> [response |-> NilResp, err |-> AllFailed],
               received |-> rcv + 1]
         ELSE [returns |-> FALSE, ret |-> NoRet, received |-> rcv + 1]

\* All filling `responses` in arrival order (a variant the claims must tell
\* apart).
AllStepArrival(res, rcv, resps) ==
    IF res.err # NoErr
    THEN [returns |-> TRUE, ret |-> [responses |-> NilSlice, err |-> res.err],
          received |-> rcv, responses |-> resps]
    ELSE LET rs == [resps EXCEPT ![rcv] = res.response]
         IN  IF rcv + 1 = N
             THEN [returns |-> TRUE, ret |-> [responses |-> Slice(rs), err |-> NoErr],
                   received |-> rcv + 1, responses |-> rs]
             ELSE [returns |-> FALSE, ret |-> NoRet,
                   received |-> rcv + 1, responses |-> rs]

\* All reporting the first error together with the partial slice (a variant
\* the claims must tell apart).
AllStepPartial(res, rcv, resps) ==
    LET rs == IF res.err = NoErr THEN [resps EXCEPT ![res.order] = res.response]
              ELSE resps
    IN  IF res.err # NoErr
        THEN [returns |-> TRUE, ret |-> [responses |-> Slice(rs), err |-> res.err],
              received |-> rcv, responses |-> rs]
        ELSE IF rcv + 1 = N
             THEN [returns |-> TRUE, ret |-> [responses |-> Slice(rs), err |-> NoErr],
                   received |-> rcv + 1, responses |-> rs]
             ELSE [returns |-> FALSE, ret |-> NoRet,
                   received |-> rcv + 1, responses |-> rs]

\* One iteration of All's loop, with the return after the loop.
AllStep(res, rcv, resps) ==
    IF res.err # NoErr
    THEN [returns |-> TRUE, ret |-> [responses |-> NilSlice, err |-> res.err],
          received |-> rcv, responses |-> resps]
    ELSE LET rs == [resps EXCEPT ![res.order] = res.response]
         IN  IF rcv + 1 = N
             THEN [returns |-> TRUE, ret |-> [responses |-> Slice(rs), err |-> NoErr],
                   received |-> rcv + 1, responses |-> rs]
             ELSE [returns |-> FALSE, ret |-> NoRet,
                   received |-> rcv + 1, responses |-> rs]

\* Some keeping the response of a failed result in its slot (a variant the
\* claims must tell apart).
SomeStepKeepFailed(res, rcv, succ, resps) ==
    LET ok == res.err = NoErr
        sc == IF ok THEN succ + 1 ELSE succ
        rs == [resps EXCEPT ![res.order] = res.response]
    IN  IF rcv + 1 = N
        THEN [returns |-> TRUE,
              ret |-> IF sc = 0
                      THEN [responses |-> NilSlice, err |-> AllFailed]
                      ELSE [responses |-> Slice(rs), err |-> NoErr],
              received |-> rcv + 1, successful |-> sc, responses |-> rs]
        ELSE [returns |-> FALSE, ret |-> NoRet,
              received |-> rcv + 1, successful |-> sc, responses |-> rs]

\* Some returning at the first error-free result (a variant the claims must
\* tell apart).
SomeStepEarly(res, rcv, succ, resps) ==
    LET ok == res.err = NoErr
        sc == IF ok THEN succ + 1 ELSE succ
        rs == IF ok THEN [resps EXCEPT ![res.order] = res.response] ELSE resps
    IN  IF ok \/ rcv + 1 = N
        THEN [returns |-> TRUE,
              ret |-> IF sc = 0
                      THEN [responses |-> NilSlice, err |-> AllFailed]
                      ELSE [responses |-> Slice(rs), err |-> NoErr],
              received |-> rcv + 1, successful |-> sc, responses |-> rs]
        ELSE [returns |-> FALSE, ret |-> NoRet,
              received |-> rcv + 1, successful |-> sc, responses |-> rs]

\* One iteration of Some's loop, with the statements after the loop.
SomeStep(res, rcv, succ, resps) ==
    LET ok == res.err = NoErr
        sc == IF ok THEN succ + 1 ELSE succ
        rs == IF ok THEN [resps EXCEPT ![res.order] = res.response] ELSE resps
    IN  IF rcv + 1 = N
        THEN [returns |-> TRUE,
              ret |-> IF sc = 0
                      THEN [responses |-> NilSlice, err |-> AllFailed]
                      ELSE [responses |-> Slice(rs), err |-> NoErr],
              received |-> rcv + 1, successful |-> sc, responses |-> rs]
        ELSE [returns |-> FALSE, ret |-> NoRet,
              received |-> rcv + 1, successful |-> sc, responses |-> rs]

\* The loop closing stop at every result it reads (a variant the claims
\* must tell apart).
ReceiveCloseEach(step) ==
    /\ delivered' = Append(delivered, Head(results))
    /\ results' = Tail(results)
    /\ received' = step.received
    /\ stop' = "closed"
    /\ stopCloses' = stopCloses + 1
    /\ IF step.returns
       THEN /\ ret' = step.ret
            /\ pc' = "returned"
       ELSE UNCHANGED << ret, pc >>
    /\ UNCHANGED << strategy, requests, spawned, unit, unitArgs, watcher,
                    cancelled, callResult >>
    /\ UNCHANGED retryVars
    /\ UNCHANGED auxVars

\* A step of the strategy's loop: receive the next result; on return the
\* deferred close(stop) runs.
Receive(step) ==
    /\ delivered' = Append(delivered, Head(results))
    /\ results' = Tail(results)
    /\ received' = step.received
    /\ IF step.returns
       THEN /\ ret' = step.ret
            /\ pc' = "returned"
            /\ stop' = "closed"
            /\ stopCloses' = stopCloses + 1
       ELSE UNCHANGED << ret, pc, stop, stopCloses >>
    /\ UNCHANGED << strategy, requests, spawned, unit, unitArgs, watcher,
                    cancelled, callResult >>
    /\ UNCHANGED retryVars
    /\ UNCHANGED auxVars

RaceRecv ==
    /\ strategy = "Race"
    /\ pc = "recv"
    /\ results # << >>
    /\ Receive(RaceStep(Head(results), received))
    /\ UNCHANGED << successful, responses >>

AllRecv ==
    /\ strategy = "All"
    /\ pc = "recv"
    /\ results # << >>
    /\ LET step == AllStep(Head(results), received, responses)
       IN  /\ Receive(step)
           /\ responses' = step.responses
    /\ UNCHANGED successful

SomeRecv ==
    /\ strategy = "Some"
    /\ pc = "recv"
    /\ results # << >>
    /\ LET step == SomeStep(Head(results), received, successful, responses)
       IN  /\ Receive(step)
           /\ responses' = step.responses
           /\ successful' = step.successful

\* ------------------------------------------------------------ the fan-out
\* A single Do's variables while something else runs.
DoIdle ==
    /\ dpc = "idle"
    /\ doRequest = Request(0, << >>)
    /\ doAnswer = [resp |-> NilResp, err |-> NoErr]
    /\ doInvoked = << >>
    /\ doRet = [resp |-> NilResp, err |-> NoErr]
\* No request being built.
AttachIdle ==
    /\ heap = << >>
    /\ areqs = << >>

\* Retry's variables while one of Race / All / Some runs.
RetryIdle ==
    /\ request = Request(0, << >>)
    /\ intervals = << >>
    /\ initIntervals = << >>
    /\ rpc = "idle"
    /\ ctxState = "active"
    /\ timerFired = FALSE
    /\ attempts = << >>
    /\ waited = << >>
    /\ rret = NoRet

\* The request lists of length n the strategies are called with: every
\* request with the same validators, or the validators varying by position.
MixedValidators(i) ==
    IF i % 3 = 0 THEN << << 200 >> >>
    ELSE IF i % 3 = 1 THEN << << 200, 500 >>, << 200 >> >>
    ELSE << >>
RequestLists(n) ==
    { [i \in 0 .. (n - 1) |-> Request(i, vs)] : vs \in ValidatorSeqs }
    \cup { [i \in 0 .. (n - 1) |-> Request(i, MixedValidators(i))] }

\* Race / All / Some called with at most maxn requests, each with its
\* validators.
InitFan(maxn) ==
    /\ strategy \in {"Race", "All", "Some"}
    /\ \E n \in 0 .. maxn : requests \in RequestLists(n)
    /\ pc = IF N = 0 THEN "recv" ELSE "spawn"
    /\ spawned = 0
    /\ unit = [k \in Idx |-> "unspawned"]
    /\ unitArgs = [k \in Idx |-> NoArgs]
    /\ watcher = [k \in Idx |-> "none"]
    /\ cancelled = [k \in Idx |-> FALSE]
    /\ callResult = [k \in Idx |-> NoResult]
    /\ results = << >>
    /\ stop = "open"
    /\ stopCloses = 0
    /\ received = 0
    /\ successful = 0
    /\ responses = IF strategy = "Race" THEN << >> ELSE MakeResponses
    /\ ret = NoRet
    /\ delivered = << >>
    /\ RetryIdle
    /\ DoIdle
    /\ AttachIdle

Init == InitFan(MaxRequests)

Next ==
    \/ Spawn
    \/ \E k \in Idx : Start(k)
    \/ \E k \in Idx : WatcherFire(k)
    \/ \E k \in Idx : CallReturn(k)
    \/ \E k \in Idx : Publish(k)
    \/ RaceRecv
    \/ AllRecv
    \/ SomeRecv

Spec == Init /\ [][Next]_vars

\* The goroutines are scheduled fairly: a statement that can run does run.
\* Nothing is assumed of the client: a call may never return.
Units == 0 .. (MaxFairRequests - 1)
FairSpec ==
    /\ InitFan(MaxFairRequests)
    /\ [][Next]_vars
    /\ WF_vars(Spawn)
    /\ WF_vars(RaceRecv)
    /\ WF_vars(AllRecv)
    /\ WF_vars(SomeRecv)
    /\ \A k \in Units : WF_vars(k \in Idx /\ Start(k))
    /\ \A k \in Units : WF_vars(k \in Idx /\ WatcherFire(k))
    /\ \A k \in Units : WF_vars(k \in Idx /\ Publish(k))

\* Fair scheduling, and a client whose every call returns.
LiveSpec ==
    /\ FairSpec
    /\ \A k \in Units : WF_vars(k \in Idx /\ CallReturn(k))

\* ------------------------------------------------------------------- Retry
\* The fan-out's variables while Retry runs.
FanIdle ==
    /\ strategy = "none"
    /\ requests = << >>
    /\ pc = "idle"
    /\ spawned = 0
    /\ unit = << >>
    /\ unitArgs = << >>
    /\ watcher = << >>
    /\ cancelled = << >>
    /\ callResult = << >>
    /\ results = << >>
    /\ stop = "open"
    /\ stopCloses = 0
    /\ received = 0
    /\ successful = 0
    /\ responses = << >>
    /\ ret = NoRet
    /\ delivered = << >>

\* The sequences of at most n durations.
RECURSIVE IntervalSeqs(_)
IntervalSeqs(n) ==
    IF n = 0
    THEN { << >> }
    ELSE LET shorter == IntervalSeqs(n - 1)
         IN  shorter \cup { Append(q, d) : q \in shorter, d \in Durations }

\* The errors a client may answer with because the request's context is done.
CtxErrs == IF ctxState = "active" THEN {} ELSE {ctxState}

\* Retry giving up one interval early (a variant the claims must tell apart).
RetryStepEarly(d, ivs) ==
    IF d.err = NoErr
    THEN [returns |-> TRUE, ret |-> [response |-> d.resp, err |-> NoErr]]
    ELSE IF Len(ivs) <= 1
         THEN [returns |-> TRUE, ret |-> [response |-> d.resp, err |-> d.err]]
         ELSE [returns |-> FALSE, ret |-> NoRet]

\* Retry using up its intervals even after a success (a variant the claims
\* must tell apart).
RetryStepKeepGoing(d, ivs) ==
    IF Len(ivs) = 0
    THEN [returns |-> TRUE, ret |-> [response |-> d.resp, err |-> d.err]]
    ELSE [returns |-> FALSE, ret |-> NoRet]

\* Retry dropping the response of a failed last attempt (a variant the
\* claims must tell apart).
RetryStepDropResponse(d, ivs) ==
    IF d.err = NoErr
    THEN [returns |-> TRUE, ret |-> [response |-> d.resp, err |-> NoErr]]
    ELSE IF Len(ivs) = 0
         THEN [returns |-> TRUE, ret |-> [response |-> NilResp, err |-> d.err]]
         ELSE [returns |-> FALSE, ret |-> NoRet]

\* The body of Retry's loop after Do answered d with `ivs` intervals left:
\* return on success, return the failure when no interval is left, else wait.
RetryStep(d, ivs) ==
    IF d.err = NoErr
    THEN [returns |-> TRUE, ret |-> [response |-> d.resp, err |-> NoErr]]
    ELSE IF Len(ivs) = 0
         THEN [returns |-> TRUE, ret |-> [response |-> d.resp, err |-> d.err]]
         ELSE [returns |-> FALSE, ret |-> NoRet]

\* One attempt: Do(client, request), then the two `if`s; when neither
\* returns, time.After(intervals[0]) starts the timer and the select begins.
RetryAttempt ==
    /\ rpc = "attempt"
    /\ \E o \in ClientOutcomes(request, CtxErrs) :
          LET step == RetryStep(Do(request, o), intervals)
          IN  /\ attempts' = Append(attempts, o)
              /\ IF step.returns
                 THEN /\ rret' = step.ret
                      /\ rpc' = "returned"
                 ELSE /\ rret' = rret
                      /\ rpc' = "select"
    /\ timerFired' = FALSE
    /\ UNCHANGED << request, intervals, initIntervals, ctxState, waited >>
    /\ UNCHANGED fanVars
    /\ UNCHANGED auxVars

\* case <-time.After(intervals[0]): intervals = intervals[1:], loop again.
TimerCase ==
    /\ intervals' = Tail(intervals)
    /\ waited' = Append(waited, Head(intervals))
    /\ rpc' = "attempt"
    /\ timerFired' = FALSE
    /\ UNCHANGED << rret, ctxState >>

\* The context's case returning the last attempt's pair (a variant the
\* claims must tell apart).
CtxCaseReturnLast(state) ==
    LET d == Do(request, attempts[Len(attempts)])
    IN  [response |-> d.resp, err |-> d.err]

\* What `case <-ctx.Done()` returns.
CtxCaseReturn(state) == [response |-> NilResp, err |-> CtxErr(state)]

\* case <-ctx.Done(): return nil, ctx.Err()
CtxCase(state) ==
    /\ rret' = CtxCaseReturn(state)
    /\ rpc' = "returned"
    /\ UNCHANGED << intervals, waited, timerFired >>

\* The select is evaluated: a ready case is taken (any of them when both
\* are ready), and with none ready the goroutine parks on both channels.
RetrySelect ==
    /\ rpc = "select"
    /\ \/ /\ timerFired
          /\ TimerCase
       \/ /\ ctxState # "active"
          /\ CtxCase(ctxState)
          /\ UNCHANGED ctxState
       \/ /\ ~timerFired
          /\ ctxState = "active"
          /\ rpc' = "parked"
          /\ UNCHANGED << rret, ctxState, intervals, waited, timerFired >>
    /\ UNCHANGED << request, initIntervals, attempts >>
    /\ UNCHANGED fanVars
    /\ UNCHANGED auxVars

\* The interval's delay elapses: the timer's channel gets its value, which
\* wakes a parked select with the timer's case.
TimerFire ==
    /\ rpc \in {"select", "parked"}
    /\ ~timerFired
    /\ IF rpc = "parked"
       THEN TimerCase
       ELSE /\ timerFired' = TRUE
            /\ UNCHANGED << rpc, rret, ctxState, intervals, waited >>
    /\ UNCHANGED << request, initIntervals, attempts >>
    /\ UNCHANGED fanVars
    /\ UNCHANGED auxVars

\* The request's context is cancelled or its deadline passes, which wakes a
\* parked select with the context's case.
CtxDone ==
    /\ rpc \in {"attempt", "select", "parked"}
    /\ ctxState = "active"
    /\ \E state \in {"canceled", "deadline exceeded"} :
          /\ ctxState' = state
          /\ IF rpc = "parked"
             THEN CtxCase(state)
             ELSE UNCHANGED << rpc, rret, intervals, waited, timerFired >>
    /\ UNCHANGED << request, initIntervals, attempts >>
    /\ UNCHANGED fanVars
    /\ UNCHANGED auxVars

\* Retry called with a request and at most MaxIntervals intervals; the
\* request's context may be done already.
InitRetry ==
    /\ FanIdle
    /\ DoIdle
    /\ AttachIdle
    /\ request \in { Request(0, vs) : vs \in ValidatorSeqs }
    /\ initIntervals \in IntervalSeqs(MaxIntervals)
    /\ intervals = initIntervals
    /\ rpc = "attempt"
    /\ ctxState \in {"active", "canceled", "deadline exceeded"}
    /\ timerFired = FALSE
    /\ attempts = << >>
    /\ waited = << >>
    /\ rret = NoRet

NextRetry ==
    \/ RetryAttempt
    \/ RetrySelect
    \/ TimerFire
    \/ CtxDone

SpecRetry == InitRetry /\ [][NextRetry]_vars

\* ------------------------------------------------------------- a single Do
\* The code lists a validator of the model may be made of.
CodeLists == {<< >>, << 200 >>, << 500 >>, << 200, 500 >>}

\* The sequences of at most n validators.
RECURSIVE ValidatorSeqsUpTo(_)
ValidatorSeqsUpTo(n) ==
    IF n = 0
    THEN { << >> }
    ELSE LET shorter == ValidatorSeqsUpTo(n - 1)
         IN  shorter \cup { Append(q, c) : q \in shorter, c \in CodeLists }

\* The validators loop of Do, as the calls it makes: the positions of the
\* validators invoked, from position j on, in order.
RECURSIVE InvokedFrom(_, _, _)
InvokedFrom(validators, resp, j) ==
    IF validators = << >>
    THEN << >>
    ELSE << j >> \o (IF Validate(Head(validators), resp) # NoErr
                     THEN << >>
                     ELSE InvokedFrom(Tail(validators), resp, j + 1))

\* Do running the validators whatever the client answered (a variant the
\* claims must tell apart).
DoInvokedAlways(r, outcome) == [j \in 1 .. Len(r.validators) |-> j]

\* The validators Do invokes: none when the client call failed.
DoInvoked(r, outcome) ==
    IF outcome.err # NoErr
    THEN << >>
    ELSE InvokedFrom(r.validators, outcome.resp, 1)

\* Do(client, request), called once.
DoCall ==
    /\ dpc = "call"
    /\ \E o \in ClientOutcomes(doRequest, {}) :
          /\ doAnswer' = o
          /\ doInvoked' = DoInvoked(doRequest, o)
          /\ doRet' = Do(doRequest, o)
    /\ dpc' = "returned"
    /\ UNCHANGED doRequest
    /\ UNCHANGED << fanVars, retryVars, attachVars >>

InitDo ==
    /\ FanIdle
    /\ RetryIdle
    /\ AttachIdle
    /\ dpc = "call"
    /\ doRequest \in { Request(0, vs) : vs \in ValidatorSeqsUpTo(MaxValidators) }
    /\ doAnswer = [resp |-> NilResp, err |-> NoErr]
    /\ doInvoked = << >>
    /\ doRet = [resp |-> NilResp, err |-> NoErr]

NextDo == DoCall

SpecDo == InitDo /\ [][NextDo]_vars

\* --------------------------------------- WithValidator, WithStatusRequired
\* A Go slice of validators is a header (array, len, cap) over a backing
\* array of the heap; array 0 is none (the nil slice).  A validator is the
\* code list of its WithStatusRequired closure.
NilHeader == [arr |-> 0, len |-> 0, cap |-> 0]
\* The code lists WithStatusRequired is called with.
AttachCodeLists == {<< >>, << 200 >>, << 200, 500 >>}
\* A nil func in an array cell not yet written.
NilValidator == << -1 >>

\* The validators seen through header hdr in heap h.
ObservedIn(h, hdr) == [j \in 1 .. hdr.len |-> h[hdr.arr][j]]

\* The capacity append gives to the array it allocates for a slice that is
\* full (the gc runtime's growth for small slices of pointer-sized elements:
\* 0 -> 1 -> 2 -> 4 -> 8).
GrowCap(cap) == IF cap = 0 THEN 1 ELSE 2 * cap

\* append(validators, validate): in place when the array has room, else on
\* a new array that holds a copy.
AppendSlice(h, hdr, v) ==
    IF hdr.len < hdr.cap
    THEN [heap |-> [h EXCEPT ![hdr.arr][hdr.len + 1] = v],
          hdr |-> [hdr EXCEPT !.len = hdr.len + 1]]
    ELSE LET nc == GrowCap(hdr.cap)
             old == ObservedIn(h, hdr)
             arr == [j \in 1 .. nc |->
                       IF j <= hdr.len THEN old[j]
                       ELSE IF j = hdr.len + 1 THEN v ELSE NilValidator]
         IN  [heap |-> Append(h, arr),
              hdr |-> [arr |-> Len(h) + 1, len |-> hdr.len + 1, cap |-> nc]]

\* WithValidator storing over the last validator (a variant the claims must
\* tell apart).
WithValidatorOverwrite(h, hdr, v) ==
    IF hdr.len = 0
    THEN AppendSlice(h, hdr, v)
    ELSE [heap |-> [h EXCEPT ![hdr.arr][hdr.len] = v], hdr |-> hdr]

\* WithValidator(r, validate): the slice found in r's context, appended to,
\* is stored in the context of the request returned.
WithValidator(h, hdr, v) == AppendSlice(h, hdr, v)

\* WithStatusRequired(r, codes...) on request number src; the new request
\* records what it was made from (history).
WithStatusRequired(src, codes) ==
    /\ areqs # << >>
    /\ Len(areqs) <= MaxAttach
    /\ LET w == WithValidator(heap, areqs[src].hdr, codes)
       IN  /\ heap' = w.heap
           /\ areqs' = Append(areqs,
                 [hdr |-> w.hdr, src |-> src, codes |-> codes,
                  expected |-> Append(areqs[src].expected, codes)])
    /\ UNCHANGED << fanVars, retryVars, doVars >>

\* http.NewRequest: a request with no validators.
InitAttach ==
    /\ FanIdle
    /\ RetryIdle
    /\ DoIdle
    /\ heap = << >>
    /\ areqs = << [hdr |-> NilHeader, src |-> 0, codes |-> << >>,
                   expected |-> << >>] >>

NextAttach ==
    \E src \in 1 .. Len(areqs), codes \in AttachCodeLists :
       WithStatusRequired(src, codes)

SpecAttach == InitAttach /\ [][NextAttach]_vars

\* ================================================================= claims
\* Every result sent so far, in sending order: those read, then those queued.
AllPublished == delivered \o results
Published == 1 .. Len(AllPublished)
Delivered == 1 .. Len(delivered)
Fanning == strategy \in {"Race", "All", "Some"}
LastDelivered == delivered[Len(delivered)]
\* The delivered result tagged i.
DeliveredOf(i) == delivered[CHOOSE a \in Delivered : delivered[a].order = i]
\* Whether result res is about request i: its response answers request i,
\* its error is request i's.
AboutRequest(res, i) ==
    /\ res.response # NilResp => res.response.req = requests[i].id
    /\ res.err # NoErr => res.err.req = requests[i].id
\* Whether every validator attached to request i accepts response resp.
Accepted(i, resp) ==
    \A j \in 1 .. Len(requests[i].validators) :
       \E c \in 1 .. Len(requests[i].validators[j]) :
          requests[i].validators[j][c] = resp.status

\* C1: in Race, All and Some, under every interleaving and also after stop
\* fired and the strategy returned, a call unit whose client call returned
\* can always send (the stream is not full), a unit has sent exactly one
\* Result when it is finished and none before, the tags of the Results sent
\* are pairwise distinct and lie in [0, N), and the Result tagged i is about
\* the i-th request.
C1_OneResultPerRequest ==
    Fanning =>
       /\ \A a \in Published : AllPublished[a].order \in Idx
       /\ \A a, b \in Published :
             a # b => AllPublished[a].order # AllPublished[b].order
       /\ \A a \in Published : AboutRequest(AllPublished[a], AllPublished[a].order)
       /\ \A k \in Idx :
             /\ unit[k] = "done" <=> \E a \in Published : AllPublished[a].order = k
             /\ unit[k] = "publishing" =>
                   /\ Len(results) < ResultsCap
                   /\ callResult[k].order = k
                   /\ AboutRequest(callResult[k], k)
\* A unit cancelled after the strategy returned has still sent its Result.
C1_Witness ==
    /\ Fanning
    /\ N = 3
    /\ pc = "returned"
    /\ \A k \in Idx : unit[k] = "done"
    /\ Len(AllPublished) = 3
    /\ \E a \in 1 .. Len(results) : results[a].err.kind = "canceled"

\* C2: Race returns a response only of a request whose client call succeeded
\* and whose validators all accept it (its Result carries no error), and an
\* error only after all N Results carried one; the error is then the
\* aggregate one, with a nil response.
C2_RaceReturn ==
    (strategy = "Race" /\ pc = "returned") =>
       /\ ret.response # NilResp =>
             /\ ret.err = NoErr
             /\ \E a \in Delivered :
                   /\ delivered[a].err = NoErr
                   /\ delivered[a].response = ret.response
                   /\ ret.response.req = requests[delivered[a].order].id
                   /\ ret.response.status \in Statuses
                   /\ Accepted(delivered[a].order, ret.response)
       /\ ret.err # NoErr =>
             /\ ret.err = AllFailed
             /\ ret.response = NilResp
             /\ Len(delivered) = N
             /\ \A a \in Delivered : delivered[a].err # NoErr
       /\ ret.response # NilResp \/ ret.err # NoErr
\* Race failed although some rejected request had a response.
C2_Witness ==
    /\ strategy = "Race"
    /\ pc = "returned"
    /\ N = 3
    /\ ret.err = AllFailed
    /\ \E a \in Delivered :
          delivered[a].err.kind = "validation" /\ delivered[a].response # NilResp
    /\ \E a \in Delivered : delivered[a].err.kind = "transport"

\* C3: Race's winner is the first error-free Result in delivery order:
\* while Race reads, everything delivered carried an error; an error ends
\* the race only as the N-th Result; and Race returns with the Result it
\* has just read, whatever the other calls are doing.
C3_RaceFirstSuccess ==
    strategy = "Race" =>
       /\ pc = "recv" => \A a \in Delivered : delivered[a].err # NoErr
       /\ pc = "recv" => (N = 0 \/ Len(delivered) < N)
       /\ (pc = "returned" /\ Len(delivered) < N) => LastDelivered.err = NoErr
       /\ (pc = "returned" /\ ret.err = NoErr) =>
             /\ delivered # << >>
             /\ LastDelivered.err = NoErr
             /\ ret.response = LastDelivered.response
             /\ \A a \in 1 .. (Len(delivered) - 1) : delivered[a].err # NoErr
\* Race has just returned the second Result read, the first one carried an
\* error, and the third call has not returned.
C3_Witness ==
    /\ strategy = "Race"
    /\ pc = "returned"
    /\ N = 3
    /\ ret.err = NoErr
    /\ Len(delivered) = 2
    /\ delivered[1].err # NoErr
    /\ \E k \in Idx : unit[k] = "calling" /\ watcher[k] = "waiting"

\* C4: when All has returned and every Result sent is error-free, All
\* returned no error and a slice of length N whose element i is the
\* response of request i.
C4_AllInRequestOrder ==
    (/\ strategy = "All"
     /\ pc = "returned"
     /\ \A a \in Published : AllPublished[a].err = NoErr) =>
       /\ ret.err = NoErr
       /\ ~ret.responses.isNil
       /\ DOMAIN ret.responses.at = Idx
       /\ Len(delivered) = N
       /\ \A i \in Idx :
             /\ ret.responses.at[i] # NilResp
             /\ ret.responses.at[i].req = requests[i].id
             /\ ret.responses.at[i] = DeliveredOf(i).response
\* All succeeded with the Results delivered in reverse request order.
C4_Witness ==
    /\ strategy = "All"
    /\ pc = "returned"
    /\ N = 3
    /\ ret.err = NoErr
    /\ delivered[1].order = 2
    /\ delivered[2].order = 1
    /\ delivered[3].order = 0

\* C5: All reads on only while no Result carried an error; once one did,
\* All has returned a nil slice and that Result's error, which is the
\* failed request's own transport or validation error, and that Result is
\* the last one All read.
C5_AllFirstError ==
    strategy = "All" =>
       /\ pc = "recv" => \A a \in Delivered : delivered[a].err = NoErr
       /\ (pc = "returned" /\ \E a \in Delivered : delivered[a].err # NoErr) =>
             /\ ret.responses.isNil
             /\ ret.err = LastDelivered.err
             /\ ret.err # AllFailed
             /\ ret.err.kind \in {"transport", "validation"}
             /\ ret.err.req = requests[LastDelivered.order].id
             /\ \A a \in 1 .. (Len(delivered) - 1) : delivered[a].err = NoErr
       /\ (pc = "returned" /\ ret.err # NoErr) =>
             \E a \in Delivered : delivered[a].err # NoErr
\* All has just returned a validation error read after one success, and the
\* third call has not returned.
C5_Witness ==
    /\ strategy = "All"
    /\ pc = "returned"
    /\ N = 3
    /\ Len(delivered) = 2
    /\ delivered[1].err = NoErr
    /\ ret.err.kind = "validation"
    /\ \E k \in Idx : unit[k] = "calling" /\ watcher[k] = "waiting"

\* C6: Some returns after N Results; with at least one error-free Result it
\* returns no error and a slice of length N whose slot i is request i's
\* response when its Result is error-free and nil when it carries an error;
\* with none it returns a nil slice and the aggregate error.
C6_SomeSlots ==
    (strategy = "Some" /\ pc = "returned") =>
       /\ Len(delivered) = N
       /\ IF \E a \in Delivered : delivered[a].err = NoErr
          THEN /\ ret.err = NoErr
               /\ ~ret.responses.isNil
               /\ DOMAIN ret.responses.at = Idx
               /\ \A i \in Idx :
                     /\ AboutRequest(DeliveredOf(i), i)
                     /\ ret.responses.at[i] =
                           IF DeliveredOf(i).err = NoErr
                           THEN DeliveredOf(i).response
                           ELSE NilResp
          ELSE /\ ret.responses.isNil
               /\ ret.err = AllFailed
\* Some returned two responses and a nil slot for a request whose response
\* was rejected, the Results not having arrived in request order.
C6_Witness ==
    /\ strategy = "Some"
    /\ pc = "returned"
    /\ N = 3
    /\ ret.err = NoErr
    /\ delivered[1].order = 1
    /\ \E i \in Idx :
          /\ DeliveredOf(i).err.kind = "validation"
          /\ DeliveredOf(i).response # NilResp
          /\ ret.responses.at[i] = NilResp
    /\ Cardinality({i \in Idx : ret.responses.at[i] # NilResp}) = 2

\* ---------------------------------------------------------- Retry's claims
\* Number of intervals Retry was called with.
K == Len(initIntervals)
Attempts == 1 .. Len(attempts)
\* What Do answered at attempt a.
DoOf(a) == Do(request, attempts[a])
\* The pair (response, error) of attempt a, as Retry returns pairs.
PairOf(a) == [response |-> DoOf(a).resp, err |-> DoOf(a).err]

\* C7: Retry makes at least 1 and at most K+1 attempts; the delays that
\* elapsed are the first intervals, in order, one between two consecutive
\* attempts, and the intervals left are the rest; when every attempt failed
\* and the context is not done, Retry has returned only after K+1 attempts,
\* with the response and error of the last one.
C7_RetryAttempts ==
    rpc # "idle" =>
       /\ Len(attempts) <= K + 1
       /\ rpc # "attempt" => Len(attempts) >= 1
       /\ Len(waited) <= K
       /\ waited = SubSeq(initIntervals, 1, Len(waited))
       /\ intervals = SubSeq(initIntervals, Len(waited) + 1, K)
       /\ Len(waited) = IF rpc = "attempt" THEN Len(attempts) ELSE Len(attempts) - 1
       /\ (/\ rpc = "returned"
           /\ ctxState = "active"
           /\ \A a \in Attempts : DoOf(a).err # NoErr) =>
             /\ Len(attempts) = K + 1
             /\ intervals = << >>
             /\ rret = PairOf(Len(attempts))
\* Three different intervals used up, four failed attempts, the last one a
\* rejected response.
C7_Witness ==
    /\ rpc = "returned"
    /\ ctxState = "active"
    /\ initIntervals = << 1, 2, 1 >>
    /\ waited = << 1, 2, 1 >>
    /\ Len(attempts) = 4
    /\ rret.err.kind = "validation"
    /\ rret.response # NilResp
    /\ attempts[1].err.kind = "transport"

\* C8: an attempt that Do answers without error is the last one: Retry has
\* returned its response and no error after exactly that many client calls,
\* one interval used per earlier attempt and the others left untouched, and
\* a returned Retry takes no further step.
C8_RetryStopsAtSuccess ==
    rpc # "idle" =>
       /\ \A a \in Attempts :
             DoOf(a).err = NoErr =>
                /\ a = Len(attempts)
                /\ rpc = "returned"
                /\ rret = [response |-> attempts[a].resp, err |-> NoErr]
                /\ rret.response # NilResp
                /\ Len(waited) = a - 1
                /\ intervals = SubSeq(initIntervals, a, K)
       /\ rpc = "returned" => ~ENABLED NextRetry
\* Two rejected responses, then an accepted one, with one interval left.
C8_Witness ==
    /\ rpc = "returned"
    /\ K = 3
    /\ Len(attempts) = 3
    /\ DoOf(1).err.kind = "validation"
    /\ DoOf(2).err.kind = "validation"
    /\ rret.err = NoErr
    /\ rret.response.status = 200
    /\ Len(intervals) = 1

\* C9: when the context is done while Retry waits and the delay has not
\* elapsed, the step that ends the wait returns a nil response and the
\* context's error, with no further attempt and no interval used; and a
\* returned Retry does nothing more.
C9_RetryContextDone ==
    /\ [][(/\ rpc \in {"select", "parked"}
           /\ ~timerFired
           /\ ctxState' # "active"
           /\ rpc' # rpc) =>
             (/\ rpc' = "returned"
              /\ rret' = [response |-> NilResp, err |-> CtxErr(ctxState')]
              /\ attempts' = attempts
              /\ intervals' = intervals)]_vars
    /\ [][rpc = "returned" => UNCHANGED << rpc, rret, attempts, intervals >>]_vars
\* Retry returned the deadline's error after an attempt whose response was
\* rejected, with intervals left.
C9_Witness ==
    /\ rpc = "returned"
    /\ ctxState = "deadline exceeded"
    /\ rret = [response |-> NilResp, err |-> CtxErr("deadline exceeded")]
    /\ Len(attempts) = 2
    /\ DoOf(2).err.kind = "validation"
    /\ DoOf(2).resp # NilResp
    /\ Len(intervals) = 2

\* C10: called with no interval, Retry never waits, makes exactly one
\* client call and returns the pair Do answers for it, also when the
\* request's context is already done.
C10_RetryNoIntervals ==
    (rpc # "idle" /\ K = 0) =>
       /\ rpc \in {"attempt", "returned"}
       /\ rpc = "attempt" => attempts = << >>
       /\ rpc = "returned" =>
             /\ Len(attempts) = 1
             /\ rret = PairOf(1)
\* The context was done and the client answered with its error, which
\* Retry returned as Do does.
C10_Witness ==
    /\ rpc = "returned"
    /\ K = 0
    /\ ctxState = "canceled"
    /\ Len(attempts) = 1
    /\ rret = [response |-> NilResp, err |-> [kind |-> "canceled", req |-> 0]]

\* ------------------------------------------------- Do's and attach's claims
\* Whether code list codes holds status.
Lists(codes, status) == \E c \in 1 .. Len(codes) : codes[c] = status
\* The positions of doRequest's validators that reject the client's response.
Rejecting ==
    { j \in 1 .. Len(doRequest.validators) :
        ~Lists(doRequest.validators[j], doAnswer.resp.status) }
\* The least element of a non-empty set of numbers.
Least(S) == CHOOSE x \in S : \A y \in S : x <= y

\* C11: when the client call succeeds, Do invokes the validators in
\* attachment order up to and including the first that rejects the
\* response, and returns the response with that validator's error; when
\* none rejects it, Do invokes them all and returns the response and no
\* error.
C11_DoValidatorsInOrder ==
    (dpc = "returned" /\ doAnswer.err = NoErr) =>
       /\ doRet.resp = doAnswer.resp
       /\ IF Rejecting = {}
          THEN /\ doInvoked = [j \in 1 .. Len(doRequest.validators) |-> j]
               /\ doRet.err = NoErr
          ELSE /\ doInvoked = [j \in 1 .. Least(Rejecting) |-> j]
               /\ doRet.err = [kind |-> "validation", req |-> doRequest.id,
                               codes |-> doRequest.validators[Least(Rejecting)],
                               status |-> doAnswer.resp.status]
\* The second of three validators rejected the response; the third, which
\* would reject it for another reason, was not invoked.
C11_Witness ==
    /\ dpc = "returned"
    /\ doAnswer.err = NoErr
    /\ Len(doRequest.validators) = 3
    /\ Rejecting = {2, 3}
    /\ doRequest.validators[2] # doRequest.validators[3]
    /\ doInvoked = << 1, 2 >>

\* C12: when the client call fails, Do returns the client's error and
\* response unchanged and invokes no validator.
C12_DoTransportError ==
    (dpc = "returned" /\ doAnswer.err # NoErr) =>
       /\ doRet.err = doAnswer.err
       /\ doRet.err.kind = "transport"
       /\ doRet.resp = doAnswer.resp
       /\ doInvoked = << >>
\* The client failed for a request with three validators.
C12_Witness ==
    /\ dpc = "returned"
    /\ doAnswer.err.kind = "transport"
    /\ Len(doRequest.validators) = 3
    /\ doRet.err = doAnswer.err
    /\ doInvoked = << >>

\* The validators seen through request number n.
Observed(n) == ObservedIn(heap, areqs[n].hdr)
AReqs == 1 .. Len(areqs)

\* C13: two requests made from the same base request each show the base's
\* validators followed by their own, whatever was attached to the base
\* after them.
C13_ForksIndependent ==
    \A a, b \in AReqs :
       (a # b /\ areqs[a].src = areqs[b].src /\ areqs[a].src # 0) =>
          /\ Observed(a) = Append(Observed(areqs[a].src), areqs[a].codes)
          /\ Observed(b) = Append(Observed(areqs[b].src), areqs[b].codes)

\* C16: the validator WithStatusRequired makes accepts a response exactly
\* when its status is one of the codes (none with no code), its error names
\* the codes and the status, and the request returned carries one validator
\* more than the one given.
C16_StatusRequired ==
    \A n \in AReqs :
       (n = Len(areqs) /\ n > 1) =>
          /\ areqs[n].hdr.len = areqs[areqs[n].src].hdr.len + 1
          /\ Observed(n)[areqs[n].hdr.len] = areqs[n].codes
          /\ \A s \in Statuses \cup {404} :
                LET resp == [req |-> 0, status |-> s]
                    e == Validate(Observed(n)[areqs[n].hdr.len], resp)
                IN  IF Lists(areqs[n].codes, s)
                    THEN e = NoErr
                    ELSE e = [kind |-> "validation", req |-> 0,
                              codes |-> areqs[n].codes, status |-> s]
\* WithStatusRequired(r, 200, 500) on a request with two validators, and
\* WithStatusRequired with no code before it.
C16_Witness ==
    /\ Len(areqs) = 4
    /\ areqs[4].codes = << 200, 500 >>
    /\ areqs[4].src = 3
    /\ areqs[3].codes = << >>
    /\ areqs[4].hdr.len = 3

\* C20: a WithValidator call returns a request showing the given request's
\* validators followed by the new one, and leaves the validators seen
\* through the given request as they were.
C20_AppendOnly ==
    [][\A src \in AReqs :
          (Len(areqs') = Len(areqs) + 1 /\ areqs'[Len(areqs')].src = src) =>
             LET new == areqs'[Len(areqs')]
             IN  /\ areqs'[src] = areqs[src]
                 /\ ObservedIn(heap', areqs'[src].hdr) = Observed(src)
                 /\ ObservedIn(heap', new.hdr) = Append(Observed(src), new.codes)]_vars
\* A validator was appended in place, in the array the given request's slice
\* shares.
C20_Witness ==
    /\ Len(areqs) = 5
    /\ areqs[5].src = 4
    /\ areqs[4].hdr.len = 3
    /\ areqs[5].hdr.arr = areqs[4].hdr.arr
    /\ areqs[5].hdr.len = 4

\* ------------------------------------------- the fan-out's further claims
\* C14: stop is closed exactly when the strategy has returned, and by then
\* close(stop) has run exactly once; while the strategy spawns or reads,
\* stop is open and has never been closed.
C14_StopClosedOnce ==
    Fanning =>
       /\ stopCloses <= 1
       /\ stop = "closed" <=> pc = "returned"
       /\ stopCloses = 1 <=> pc = "returned"
       /\ pc = "returned" => ret # NoRet
       /\ pc # "returned" => ret = NoRet
\* Race returned early: stop is closed once while two calls are in flight.
C14_Witness ==
    /\ strategy = "Race"
    /\ N = 3
    /\ pc = "returned"
    /\ stop = "closed"
    /\ stopCloses = 1
    /\ Len(delivered) = 1
    /\ Cardinality({k \in Idx : unit[k] = "calling"}) = 2

\* C15: when Race or All has returned, all N units have been spawned; a
\* unit whose client call has not returned then is started and has its
\* context cancelled eventually; and a Result that was sent stays as sent.
C15_CancelAfterReturn ==
    /\ []((strategy \in {"Race", "All"} /\ pc = "returned") =>
             (spawned = N /\ \A k \in Idx : unit[k] # "unspawned"))
    /\ [][\A a \in Published :
             a <= Len(AllPublished') /\ AllPublished'[a] = AllPublished[a]]_vars
    /\ \A k \in Units :
          (/\ strategy \in {"Race", "All"}
           /\ pc = "returned"
           /\ k \in Idx
           /\ unit[k] \in {"spawned", "calling"})
          ~> (k \in Idx /\ cancelled[k] /\ unit[k] \notin {"unspawned", "spawned"})
\* After Race returned, a watcher cancelled the context of a call still in
\* flight, next to a Result sent before the return.
C15_Witness ==
    /\ strategy = "Race"
    /\ N = 2
    /\ pc = "returned"
    /\ \E k \in Idx : unit[k] = "calling" /\ cancelled[k] /\ watcher[k] = "done"
    /\ \E k \in Idx : unit[k] = "done" /\ watcher[k] = "waiting"

\* C17: Race, All and Some return, for every number of requests, when every
\* client call returns and scheduling is fair.
C17_Returns == <>(pc = "returned")

\* C18: the result stream never holds more than N Results and a unit that
\* has its Result can always send it; once the strategy has returned and
\* every client call has returned, every call unit and every watcher ends.
C18_LeakFree ==
    /\ [](Fanning =>
            /\ Len(results) <= N
            /\ \A k \in Idx : unit[k] = "publishing" => Len(results) < ResultsCap)
    /\ (/\ Fanning
        /\ pc = "returned"
        /\ \A k \in Idx : unit[k] \in {"publishing", "done"})
       ~> (\A k \in Idx : unit[k] = "done" /\ watcher[k] = "done")
\* All returned at the first Result; the Result sent after that stays in
\* the stream, and every unit and watcher has ended.
C18_Witness ==
    /\ strategy = "All"
    /\ N = 2
    /\ pc = "returned"
    /\ Len(delivered) = 1
    /\ Len(results) = 1
    /\ \A k \in Idx : unit[k] = "done" /\ watcher[k] = "done"

\* C19: Some closes stop only after it has read all N Results, every unit
\* having sent its own; no context is cancelled while its call is in
\* flight and no Result carries a cancellation.
C19_SomeNeverStopsEarly ==
    strategy = "Some" =>
       /\ (stop = "closed" \/ pc = "returned") =>
             /\ Len(delivered) = N
             /\ results = << >>
             /\ \A k \in Idx : unit[k] = "done"
       /\ \A k \in Idx : cancelled[k] => unit[k] = "done"
       /\ \A a \in Published : AllPublished[a].err # NoErr =>
             AllPublished[a].err.kind \in {"transport", "validation"}
\* Some read an error, a success and an error, and returned; the watchers
\* have not run yet.
C19_Witness ==
    /\ strategy = "Some"
    /\ N = 3
    /\ pc = "returned"
    /\ delivered[1].err # NoErr
    /\ delivered[2].err = NoErr
    /\ delivered[3].err # NoErr
    /\ \A k \in Idx : watcher[k] = "waiting"

====
